---- MODULE Spec2Model ----
(***************************************************************************)
(* Model of .github/scripts/clang_tidy_html_report.py: clang-tidy logs are *)
(* parsed line by line into diagnostic records, filtered, deduplicated,    *)
(* sorted, counted, written out as an HTML report and a counts file, and   *)
(* turned into an exit status.                                             *)
(*                                                                         *)
(* A Python str is modelled as a sequence of one-character strings, so     *)
(* that prefix, suffix, substring and lexical comparison are computed.     *)
(***************************************************************************)
EXTENDS Integers, Sequences, FiniteSets, TLC

VARIABLES
    logs,                   \* a.logs: the log files, in command-line order
    fail_on,                \* the --fail-on argument as given
    counts,                 \* whether --counts was given
    EXCLUDED_FILES,         \* module globals, loaded once at import
    EXCLUDED_PATH_PREFIXES,
    SUPPRESS_CHECKS,
    SUPPRESS_MSG_SUBSTR,
    pc,                     \* position of the run in main()
    p,                      \* parse_logs: index of the next log file
    reads,                  \* number of log files read_text was called on
    entries,                \* parse_logs: entries
    seen,                   \* parse_logs: seen
    items,                  \* main: items
    by_check,               \* main: by_check
    files,                  \* main: files
    sev_ct,                 \* main: sev_ct
    out_file,               \* content of the HTML report on disk (<<>>: not written)
    counts_file,            \* content of the counts file on disk (<<>>: not written)
    exit_status             \* process exit status (-1: still running)

args == <<logs, fail_on, counts>>
globals == <<EXCLUDED_FILES, EXCLUDED_PATH_PREFIXES, SUPPRESS_CHECKS, SUPPRESS_MSG_SUBSTR>>
parse_state == <<p, reads, entries, seen>>
aggregates == <<by_check, files, sev_ct>>
outputs == <<out_file, counts_file>>
vars == <<args, globals, pc, parse_state, items, aggregates, outputs, exit_status>>

---------------------------------------------------------------------------
(* Bounds of the inputs. *)

\* at most this many log files on the command line
MaxFiles == 2
\* at most this many lines over all the log files of a run
MaxLines == 3

---------------------------------------------------------------------------
(* Strings. *)

\* the elements of a sequence
Range(s) == {s[i] : i \in 1..Len(s)}

\* the printable ASCII characters with code points 32 .. 95, in order
AsciiLow == <<" ","!","\"","#","$","%","&","'","(",")","*","+",",","-",".","/","0","1","2","3","4","5","6","7","8","9",":",";","<","=",">","?","@","A","B","C","D","E","F","G","H","I","J","K","L","M","N","O","P","Q","R","S","T","U","V","W","X","Y","Z","[","\\","]","^","_">>

\* the printable ASCII characters with code points 97 .. 126, in order
AsciiHigh == <<"a","b","c","d","e","f","g","h","i","j","k","l","m","n","o","p","q","r","s","t","u","v","w","x","y","z","{","|","}","~">>

Chars == Range(AsciiLow) \cup Range(AsciiHigh) \cup {"\t", "\n"}

\* ord(c)
Ord == [c \in Chars |->
          IF c = "\t" THEN 9
          ELSE IF c = "\n" THEN 10
          ELSE IF c \in Range(AsciiLow)
          THEN 31 + (CHOOSE i \in 1..Len(AsciiLow) : AsciiLow[i] = c)
          ELSE 96 + (CHOOSE i \in 1..Len(AsciiHigh) : AsciiHigh[i] = c)]

\* the characters of Chars that \s and str.strip() treat as whitespace
WS == {" ", "\t", "\n"}

\* characters that \d matches
Digit == {"0", "1", "2", "3", "4", "5", "6", "7", "8", "9"}

Min(S) == CHOOSE x \in S : \A y \in S : x <= y

\* a < b for Python str: by code point, a proper prefix is smaller
RECURSIVE StrLess(_, _)
StrLess(a, b) ==
    IF b = <<>> THEN FALSE
    ELSE IF a = <<>> THEN TRUE
    ELSE IF Head(a) = Head(b) THEN StrLess(Tail(a), Tail(b))
    ELSE Ord[Head(a)] < Ord[Head(b)]

\* s.startswith(t)
StartsWith(s, t) == Len(t) <= Len(s) /\ SubSeq(s, 1, Len(t)) = t

\* s.endswith(t)
EndsWith(s, t) == Len(t) <= Len(s) /\ SubSeq(s, Len(s) - Len(t) + 1, Len(s)) = t

\* t in s
Contains(s, t) == \E i \in 0..(Len(s) - Len(t)) : SubSeq(s, i + 1, i + Len(t)) = t

\* length of the longest run of characters of S in s starting at position i
RunIn(s, i, S) ==
    LET J == {j \in i..Len(s) : s[j] \notin S}
    IN  IF i > Len(s) THEN 0 ELSE IF J = {} THEN Len(s) - i + 1 ELSE Min(J) - i

\* length of the longest run of characters not in S in s starting at position i
RunNotIn(s, i, S) ==
    LET J == {j \in i..Len(s) : s[j] \in S}
    IN  IF i > Len(s) THEN 0 ELSE IF J = {} THEN Len(s) - i + 1 ELSE Min(J) - i

\* s.strip()
Strip(s) ==
    LET a == RunIn(s, 1, WS)
        T == {j \in 1..Len(s) : \A i \in j..Len(s) : s[i] \in WS}
    IN  IF a = Len(s) THEN <<>>
        ELSE SubSeq(s, a + 1, IF T = {} THEN Len(s) ELSE Min(T) - 1)

\* s.rstrip('/')
RECURSIVE RStripSlash(_)
RStripSlash(s) ==
    IF s # <<>> /\ s[Len(s)] = "/" THEN RStripSlash(SubSeq(s, 1, Len(s) - 1)) ELSE s

\* s.split(sep) for a one-character sep
RECURSIVE Split(_, _)
Split(s, sep) ==
    LET I == {i \in 1..Len(s) : s[i] = sep}
    IN  IF I = {} THEN <<s>>
        ELSE <<SubSeq(s, 1, Min(I) - 1)>> \o Split(SubSeq(s, Min(I) + 1, Len(s)), sep)

\* s.splitlines(), for text whose only line break is '\n'
SplitLines(s) ==
    LET parts == Split(s, "\n")
    IN  IF parts[Len(parts)] = <<>> THEN SubSeq(parts, 1, Len(parts) - 1) ELSE parts

\* sep.join(parts)
RECURSIVE Join(_, _)
Join(parts, sep) ==
    IF parts = <<>> THEN <<>>
    ELSE IF Len(parts) = 1 THEN parts[1]
    ELSE parts[1] \o <<sep>> \o Join(Tail(parts), sep)

\* the longest string of decimal digits that int() converts: a longer one
\* raises ValueError (sys.get_int_max_str_digits(), leading zeros counted)
INT_MAX_STR_DIGITS == 4300

\* what stands for the ValueError that int() raises
ValueError == <<"ValueError">>

\* int(s) for a string s of decimal digits, as \d+ matches it: ValueError for
\* more than INT_MAX_STR_DIGITS digits, else the number.  A Python int has no
\* width, so the number is held as its decimal digits without leading zeros,
\* which is also what str() and an f-string make of it.
ToInt(s) ==
    LET z == RunIn(s, 1, {"0"})
    IN  IF Len(s) > INT_MAX_STR_DIGITS THEN ValueError
        ELSE IF z = Len(s) THEN <<"0">>
        ELSE SubSeq(s, z + 1, Len(s))

\* a < b for two ints: the shorter is the smaller, and of two of one length
\* the one with the smaller digit where they first differ
IntLess(a, b) ==
    LET D == {i \in 1..Len(a) : i <= Len(b) /\ a[i] # b[i]}
    IN  \/ Len(a) < Len(b)
        \/ /\ Len(a) = Len(b)
           /\ D # {}
           /\ Ord[a[Min(D)]] < Ord[b[Min(D)]]

---------------------------------------------------------------------------
(* Paths. *)

\* is_header
is_header(path) ==
    \/ EndsWith(path, <<".","h">>)
    \/ EndsWith(path, <<".","h","p","p">>)
    \/ EndsWith(path, <<".","h","h">>)
    \/ EndsWith(path, <<".","h","x","x">>)

\* The working directory of the run, as path components: /w.  The script is
\* run from the checkout, and GITHUB_WORKSPACE is unset or names it.
Cwd == << <<"w">> >>

IsAbs(path) == path # <<>> /\ path[1] = "/"

\* a POSIX path that starts with exactly two slashes has the root '//'
DoubleSlashRoot(path) ==
    StartsWith(path, <<"/","/">>) /\ ~StartsWith(path, <<"/","/","/">>)

\* pathlib's parts of a path below its root: '' and '.' components are dropped
Components(path) ==
    SelectSeq(Split(path, "/"), LAMBDA c : c # <<>> /\ c # <<".">>)

\* what realpath does with '..' when no component is a symbolic link
RECURSIVE Collapse(_, _)
Collapse(done, rest) ==
    IF rest = <<>> THEN done
    ELSE IF Head(rest) = <<".",".">>
         THEN Collapse(IF done = <<>> THEN <<>> ELSE SubSeq(done, 1, Len(done) - 1),
                       Tail(rest))
         ELSE Collapse(Append(done, Head(rest)), Tail(rest))

\* Path(path).resolve(), as components below the root
Resolve(path) ==
    Collapse(<<>>, (IF IsAbs(path) THEN <<>> ELSE Cwd) \o Components(path))

\* REPO_ROOT = Path(os.environ.get('GITHUB_WORKSPACE', '.')).resolve()
REPO_ROOT == Resolve(<<".">>)

\* os.path.normpath: the components kept
RECURSIVE NormComps(_, _, _)
NormComps(abs, new, rest) ==
    IF rest = <<>> THEN new
    ELSE LET c == Head(rest) IN
         IF c = <<>> \/ c = <<".">> THEN NormComps(abs, new, Tail(rest))
         ELSE IF \/ c # <<".",".">>
                 \/ (~abs /\ new = <<>>)
                 \/ (new # <<>> /\ new[Len(new)] = <<".",".">>)
              THEN NormComps(abs, Append(new, c), Tail(rest))
         ELSE IF new # <<>>
              THEN NormComps(abs, SubSeq(new, 1, Len(new) - 1), Tail(rest))
         ELSE NormComps(abs, new, Tail(rest))

\* os.path.normpath
normpath(path) ==
    LET abs == IsAbs(path)
        joined == Join(NormComps(abs, <<>>, Split(path, "/")), "/")
        slashes == IF DoubleSlashRoot(path) THEN <<"/","/">> ELSE <<"/">>
        res == IF abs THEN slashes \o joined ELSE joined
    IN  IF res = <<>> THEN <<".">> ELSE res

\* normalize_path
normalize_path(path) ==
    LET r == Resolve(path)
        under == /\ Len(REPO_ROOT) <= Len(r)
                 /\ SubSeq(r, 1, Len(REPO_ROOT)) = REPO_ROOT
        rel == SubSeq(r, Len(REPO_ROOT) + 1, Len(r))
    IN  IF under
        THEN (IF rel = <<>> THEN <<".">> ELSE Join(rel, "/"))
        ELSE normpath(path)

---------------------------------------------------------------------------
(* Suppression configuration. *)

\* load_excluded_prefixes, given the value of EXCLUDE_DIRS
load_excluded_prefixes(raw) ==
    {RStripSlash(Strip(l)) \o <<"/">> : l \in {x \in Range(SplitLines(raw)) : Strip(x) # <<>>}}

\* load_excluded_files, given the value of EXCLUDE_FILES
load_excluded_files(raw) ==
    {Strip(l) : l \in {x \in Range(SplitLines(raw)) : Strip(x) # <<>>}}

\* {s.strip() for s in value.split(',') if s.strip()}
CommaList(raw) ==
    {Strip(x) : x \in {y \in Range(Split(raw, ",")) : Strip(y) # <<>>}}

\* SUPPRESS_CHECKS as written in the source, before the env override
SUPPRESS_CHECKS_BUILTIN ==
    { <<"I","g","n","o","r","e","C","l","a","s","s","e","s","W","i","t","h","A","l","l","M","e","m","b","e","r","V","a","r","i","a","b","l","e","s","B","e","i","n","g","P","u","b","l","i","c">>,
      <<"o","p","e","n","m","p","-","u","s","e","-","d","e","f","a","u","l","t","-","n","o","n","e">>,
      <<"c","l","a","n","g","-","d","i","a","g","n","o","s","t","i","c","-","e","r","r","o","r">>,
      <<"c","l","a","n","g","-","a","n","a","l","y","z","e","r","-","o","p","t","i","n",".","c","p","l","u","s","p","l","u","s",".","V","i","r","t","u","a","l","C","a","l","l">> }

\* SUPPRESS_MSG_SUBSTR as written in the source, before the env override
SUPPRESS_MSG_SUBSTR_BUILTIN ==
    { <<"I","g","n","o","r","e","C","l","a","s","s","e","s","W","i","t","h","A","l","l","M","e","m","b","e","r","V","a","r","i","a","b","l","e","s","B","e","i","n","g","P","u","b","l","i","c">>,
      <<"u","s","e"," ","o","f"," ","u","n","d","e","c","l","a","r","e","d"," ","i","d","e","n","t","i","f","i","e","r">>,
      <<"f","i","l","e"," ","n","o","t"," ","f","o","u","n","d">>,
      <<"u","n","k","n","o","w","n"," ","t","y","p","e"," ","n","a","m","e">>,
      <<"n","o"," ","m","a","t","c","h","i","n","g"," ","f","u","n","c","t","i","o","n"," ","f","o","r"," ","c","a","l","l"," ","t","o">>,
      <<"b","o","o","l","e","a","n"," ","e","x","p","r","e","s","s","i","o","n"," ","c","a","n"," ","b","e"," ","s","i","m","p","l","i","f","i","e","d"," ","b","y"," ","D","e","M","o","r","g","a","n","'","s"," ","t","h","e","o","r","e","m">> }

\* SUPPRESS_CHECKS_IN_HEADERS
SUPPRESS_CHECKS_IN_HEADERS ==
    { <<"r","e","a","d","a","b","i","l","i","t","y","-","m","a","g","i","c","-","n","u","m","b","e","r","s">>,
      <<"c","p","p","c","o","r","e","g","u","i","d","e","l","i","n","e","s","-","a","v","o","i","d","-","m","a","g","i","c","-","n","u","m","b","e","r","s">>,
      <<"m","o","d","e","r","n","i","z","e","-","u","s","e","-","t","r","a","i","l","i","n","g","-","r","e","t","u","r","n","-","t","y","p","e">>,
      <<"c","p","p","c","o","r","e","g","u","i","d","e","l","i","n","e","s","-","m","a","c","r","o","-","u","s","a","g","e">>,
      <<"c","p","p","c","o","r","e","g","u","i","d","e","l","i","n","e","s","-","m","a","c","r","o","-","t","o","-","e","n","u","m">>,
      <<"m","o","d","e","r","n","i","z","e","-","m","a","c","r","o","-","t","o","-","e","n","u","m">>,
      <<"c","e","r","t","-","o","o","p","5","4","-","c","p","p">>,
      <<"o","p","e","n","m","p","-","u","s","e","-","d","e","f","a","u","l","t","-","n","o","n","e">>,
      <<"r","e","a","d","a","b","i","l","i","t","y","-","i","d","e","n","t","i","f","i","e","r","-","n","a","m","i","n","g">> }

\* The suppression sets the functions below read, gathered in one record so
\* that the pipeline can also be evaluated under another configuration.
Policy ==
    [ files    |-> EXCLUDED_FILES,
      prefixes |-> EXCLUDED_PATH_PREFIXES,
      checks   |-> SUPPRESS_CHECKS,
      msgs     |-> SUPPRESS_MSG_SUBSTR,
      hdr      |-> SUPPRESS_CHECKS_IN_HEADERS ]

\* is_excluded_path
is_excluded_path(path, pol) ==
    \/ path \in pol.files
    \/ \E pre \in pol.prefixes : StartsWith(path, pre)

---------------------------------------------------------------------------
(* The line grammar. *)

SevText == [ warning |-> <<"w","a","r","n","i","n","g">>, error |-> <<"e","r","r","o","r">>, note |-> <<"n","o","t","e">> ]

\* s[i] = c, false beyond the end of s
At(s, i, c) == i <= Len(s) /\ s[i] = c

\* ROW_RE: (?:\s\[(?P<check>[^\]]+)\])?\s*$ with the group taken, from
\* position k of rest on: <<>> when it does not match, else <<check>>.  The
\* check runs to the first ']', and only whitespace may follow it.
GroupAt(rest, k) ==
    LET m == Len(rest)
        C == {c \in (k + 2)..m : rest[c] = "]"}
    IN  IF /\ k + 3 <= m
           /\ rest[k] \in WS
           /\ rest[k + 1] = "["
           /\ C # {}
           /\ Min(C) >= k + 3
           /\ \A j \in (Min(C) + 1)..m : rest[j] \in WS
        THEN <<SubSeq(rest, k + 2, Min(C) - 1)>>
        ELSE <<>>

\* ROW_RE from the message on: (?P<msg>.*?)(?:\s\[(?P<check>[^\]]+)\])?\s*$
\* where the message starts at position r0, after the whitespace that \s+
\* took.  The lazy msg holds no line break and ends at the first position
\* from which ' [check]' and whitespace, or whitespace alone, run to the end;
\* the group is taken where it matches.  Where no such position exists, the
\* \s+ before the message gives one whitespace character back, if it has two,
\* for the group to start with, and msg is empty.
MatchMsg(s, file, line, col, sev, r0) ==
    LET rest == SubSeq(s, r0, Len(s))
        m    == Len(s) - r0 + 1
        NL   == {j \in 1..m : rest[j] = "\n"}
        E    == {e \in 0..(IF NL = {} THEN m ELSE Min(NL) - 1) :
                    \/ GroupAt(rest, e + 1) # <<>>
                    \/ \A j \in (e + 1)..m : rest[j] \in WS}
        back == IF s[r0 - 2] \in WS THEN GroupAt(SubSeq(s, r0 - 1, Len(s)), 1) ELSE <<>>
    IN  IF E # {}
        THEN << [file |-> file, line |-> line, col |-> col, sev |-> sev,
                 msg |-> SubSeq(rest, 1, Min(E)),
                 check |-> GroupAt(rest, Min(E) + 1)] >>
        ELSE IF back # <<>>
        THEN << [file |-> file, line |-> line, col |-> col, sev |-> sev,
                 msg |-> <<>>, check |-> back] >>
        ELSE <<>>

\* ROW_RE from the severity on: (?P<sev>warning|error|note):\s+
MatchSev(s, file, line, col, s0) ==
    LET sevs == {v \in {"warning", "error", "note"} :
                    /\ At(s, s0 + Len(SevText[v]), ":")
                    /\ SubSeq(s, s0, s0 + Len(SevText[v]) - 1) = SevText[v]}
    IN  IF sevs = {} THEN <<>>
        ELSE LET sev == CHOOSE v \in sevs : TRUE
                 c4  == s0 + Len(SevText[sev])
                 w2  == RunIn(s, c4 + 1, WS)
             IN  IF w2 < 1 THEN <<>>
                 ELSE MatchMsg(s, file, line, col, sev, c4 + 1 + w2)

\* ROW_RE from the column on: (?P<col>\d+):\s+
MatchCol(s, file, line, c2) ==
    LET cl == RunIn(s, c2 + 1, Digit)
        c3 == c2 + 1 + cl
        w1 == RunIn(s, c3 + 1, WS)
    IN  IF cl < 1 \/ ~At(s, c3, ":") \/ w1 < 1 THEN <<>>
        ELSE MatchSev(s, file, line, SubSeq(s, c2 + 1, c3 - 1), c3 + 1 + w1)

\* ROW_RE from the line number on: (?P<line>\d+):
MatchLineNo(s, c1) ==
    LET ll == RunIn(s, c1 + 1, Digit)
        c2 == c1 + 1 + ll
    IN  IF ll < 1 \/ ~At(s, c2, ":") THEN <<>>
        ELSE MatchCol(s, SubSeq(s, 1, c1 - 1), SubSeq(s, c1 + 1, c2 - 1), c2)

\* ROW_RE.match(s): <<>> when the line does not match, else <<groupdict>>,
\* where the optional group check is <<>> (None) or <<text>>.
\* It starts with ^(?P<file>[^:\n]+):
ROW_RE(s) ==
    LET fl == RunNotIn(s, 1, {":", "\n"})
    IN  IF fl < 1 \/ ~At(s, fl + 1, ":") THEN <<>>
        ELSE MatchLineNo(s, fl + 1)

\* d.get('check') or ''
CheckOrEmpty(d) == IF d.check = <<>> THEN <<>> ELSE d.check[1]

---------------------------------------------------------------------------
(* parse_logs. *)

\* Key with the fault of leaving the check out of the key
Key_NoCheck(file, d) == <<file, ToInt(d.line), ToInt(d.col), d.msg>>

\* the dedup key of a matched line
Key(file, d) == <<file, ToInt(d.line), ToInt(d.col), CheckOrEmpty(d), d.msg>>

\* the entry appended for a matched line
Entry(file, d) ==
    [ file  |-> file,
      line  |-> ToInt(d.line),
      col   |-> ToInt(d.col),
      sev   |-> d.sev,
      msg   |-> d.msg,
      check |-> CheckOrEmpty(d) ]

\* the header-specific suppression: both tests of the block
HeaderSuppressed(file, d, pol) ==
    /\ is_header(file)
    /\ LET check == CheckOrEmpty(d)
           sev   == d.sev
       IN  \/ check \in pol.hdr
           \/ (sev = "warning" /\ check \in pol.hdr)

\* one turn of the loop over the lines of a log; st is [entries, seen,
\* raised].  int() stands in the key, after the tests of the path and of the
\* header, and outside the try of read_text: its ValueError leaves parse_logs.
ParseLine(st, line, pol) ==
    LET m == ROW_RE(Strip(line)) IN
    IF m = <<>> THEN st
    ELSE LET d    == m[1]
             file == normalize_path(d.file)
         IN  IF is_excluded_path(file, pol) THEN st
             ELSE IF HeaderSuppressed(file, d, pol) THEN st
             ELSE IF ToInt(d.line) = ValueError \/ ToInt(d.col) = ValueError
             THEN [st EXCEPT !.raised = TRUE]
             ELSE IF Key(file, d) \in st.seen THEN st
             ELSE [ entries |-> Append(st.entries, Entry(file, d)),
                    seen    |-> st.seen \cup {Key(file, d)},
                    raised  |-> FALSE ]

\* the loop over the lines of one log, left when a line raises
RECURSIVE ParseText(_, _, _)
ParseText(st, text, pol) ==
    IF text = <<>> \/ st.raised THEN st
    ELSE ParseText(ParseLine(st, Head(text), pol), Tail(text), pol)

\* the loop over the logs: a log that cannot be read is passed over
RECURSIVE ParseFrom(_, _, _)
ParseFrom(st, paths, pol) ==
    IF paths = <<>> \/ st.raised THEN st
    ELSE ParseFrom(IF Head(paths).readable
                   THEN ParseText(st, Head(paths).text, pol)
                   ELSE st,
                   Tail(paths), pol)

\* parse_logs(paths), under the suppression sets pol: raised says that the
\* call ends with the ValueError of int(), entries is what it returns if not
parse_logs(paths, pol) ==
    LET st == ParseFrom([entries |-> <<>>, seen |-> {}, raised |-> FALSE], paths, pol)
    IN  [ raised |-> st.raised, entries |-> IF st.raised THEN <<>> ELSE st.entries ]

---------------------------------------------------------------------------
(* main: filtering, ordering, counting. *)

\* DropNotes with the fault of dropping the notes of headers only
DropNotes_HeadersOnly(its) ==
    SelectSeq(its, LAMBDA it : ~(it.sev = "note" /\ is_header(it.file)))

\* 1) drop notes entirely
DropNotes(its) == SelectSeq(its, LAMBDA it : it.sev # "note")

\* _suppressed
_suppressed(it, pol) ==
    \/ it.check \in pol.checks
    \/ \E sub \in pol.msgs : sub # <<>> /\ Contains(it.msg, sub)

\* 2) apply check/message suppressions
DropSuppressed(its, pol) == SelectSeq(its, LAMBDA it : ~_suppressed(it, pol))

\* SortKey with the fault of taking the column before the line
SortKey_ColBeforeLine(x) ==
    <<x.sev # "error", x.sev # "warning", x.file, x.col, x.line, x.check>>

\* the kept list of main, before it is sorted: items after steps 1) and 2),
\* for logs on which parse_logs returns
Kept(paths, pol) == DropSuppressed(DropNotes(parse_logs(paths, pol).entries), pol)

\* the key of items.sort
SortKey(x) ==
    <<x.sev # "error", x.sev # "warning", x.file, x.line, x.col, x.check>>

\* False < True
BoolLess(a, b) == ~a /\ b

\* a < b for two sort keys, as Python compares tuples
KeyLess(a, b) ==
    IF a[1] # b[1] THEN BoolLess(a[1], b[1])
    ELSE IF a[2] # b[2] THEN BoolLess(a[2], b[2])
    ELSE IF a[3] # b[3] THEN StrLess(a[3], b[3])
    ELSE IF a[4] # b[4] THEN IntLess(a[4], b[4])
    ELSE IF a[5] # b[5] THEN IntLess(a[5], b[5])
    ELSE StrLess(a[6], b[6])

\* x put into a sorted list, after the elements that do not compare greater
RECURSIVE Insert(_, _)
Insert(sorted, x) ==
    IF sorted = <<>> THEN <<x>>
    ELSE IF KeyLess(SortKey(x), SortKey(Head(sorted))) THEN <<x>> \o sorted
    ELSE <<Head(sorted)>> \o Insert(Tail(sorted), x)

\* list.sort by SortKey: the stable sorted arrangement
RECURSIVE Sorted(_)
Sorted(its) ==
    IF its = <<>> THEN <<>>
    ELSE Insert(Sorted(SubSeq(its, 1, Len(its) - 1)), its[Len(its)])

\* ByCheck with the fault of grouping only the records that name a check
ByCheck_NamedOnly(its) ==
    [c \in {its[i].check : i \in 1..Len(its)} \ {<<>>} |->
        SelectSeq(its, LAMBDA it : it.check = c)]

\* by_check after the loop over items
ByCheck(its) ==
    [c \in {its[i].check : i \in 1..Len(its)} |->
        SelectSeq(its, LAMBDA it : it.check = c)]

\* files after the loop over items
Files(its) == {its[i].file : i \in 1..Len(its)}

\* sev_ct after the loop over items; a Counter reads 0 for a missing key
SevCt(its) ==
    [s \in {"error", "warning", "note"} |->
        Cardinality({i \in 1..Len(its) : its[i].sev = s})]

\* sorted(by_check.items(), key=lambda kv: (-len(kv[1]), kv[0])), as the keys
RECURSIVE ChecksByCount(_, _)
ChecksByCount(bc, left) ==
    IF left = {} THEN <<>>
    ELSE LET k == CHOOSE c \in left : \A o \in left \ {c} :
                     \/ Len(bc[c]) > Len(bc[o])
                     \/ (Len(bc[c]) = Len(bc[o]) /\ StrLess(c, o))
         IN  <<k>> \o ChecksByCount(bc, left \ {k})

\* lst[:3]
FirstThree(lst) == SubSeq(lst, 1, IF Len(lst) < 3 THEN Len(lst) ELSE 3)

\* what HTML.substitute is given: the content of the report
HtmlOut(its, bc, fs, ct) ==
    LET order == ChecksByCount(bc, DOMAIN bc) IN
    [ total         |-> Len(its),
      n_err         |-> ct["error"],
      n_warn        |-> ct["warning"],
      files_count   |-> Cardinality(fs),
      checks_count  |-> Cardinality({k \in DOMAIN bc : k # <<>>}),
      check_opts    |-> [i \in 1..Len(SelectSeq(order, LAMBDA k : k # <<>>)) |->
                            LET k == SelectSeq(order, LAMBDA c : c # <<>>)[i]
                            IN  <<k, Len(bc[k])>>],
      rows          |-> its,
      by_check_rows |-> [i \in 1..Len(order) |->
                            <<order[i], Len(bc[order[i]]), FirstThree(bc[order[i]])>>] ]

\* what json.dump is given: the content of the counts file
CountsOut(its, ct) ==
    [ errors |-> ct["error"], warnings |-> ct["warning"], total |-> Len(its) ]

\* choices of --fail-on
FailOnChoices == {"none", "errors", "warnings"}

\* the two tests that end main with sys.exit(1)
ShouldFail(f, ct) ==
    \/ (f = "errors" /\ ct["error"] > 0)
    \/ (f = "warnings" /\ (ct["error"] > 0 \/ ct["warning"] > 0))

---------------------------------------------------------------------------
(* The run. *)

\* argparse rejects a --fail-on outside its choices: usage error, status 2
UsageError ==
    /\ pc = "parse_args"
    /\ fail_on \notin FailOnChoices
    /\ pc' = "usage_error"
    /\ exit_status' = 2
    /\ UNCHANGED <<args, globals, parse_state, items, aggregates, outputs>>

\* a = ap.parse_args(); parse_logs is entered
ParseArgs ==
    /\ pc = "parse_args"
    /\ fail_on \in FailOnChoices
    /\ pc' = "parse_logs"
    /\ p' = 1
    /\ entries' = <<>>
    /\ seen' = {}
    /\ UNCHANGED <<args, globals, reads, items, aggregates, outputs, exit_status>>

\* ReadLog with the fault of starting every log with an empty seen
ReadLog_FreshSeen ==
    /\ pc = "parse_logs"
    /\ p <= Len(logs)
    /\ logs[p].readable
    /\ LET st == ParseText([entries |-> entries, seen |-> {}, raised |-> FALSE],
                           logs[p].text, Policy)
       IN  /\ ~st.raised
           /\ entries' = st.entries
           /\ seen' = st.seen
    /\ p' = p + 1
    /\ reads' = reads + 1
    /\ UNCHANGED <<args, globals, pc, items, aggregates, outputs, exit_status>>

\* parse_logs: the next log is read and its lines are parsed
ReadLog ==
    /\ pc = "parse_logs"
    /\ p <= Len(logs)
    /\ logs[p].readable
    /\ LET st == ParseText([entries |-> entries, seen |-> seen, raised |-> FALSE],
                           logs[p].text, Policy)
       IN  /\ ~st.raised
           /\ entries' = st.entries
           /\ seen' = st.seen
    /\ p' = p + 1
    /\ reads' = reads + 1
    /\ UNCHANGED <<args, globals, pc, items, aggregates, outputs, exit_status>>

\* parse_logs: the next log is read and int() raises on one of its lines: the
\* ValueError is caught nowhere and ends the process with a traceback and
\* status 1, the lines before it parsed
ReadLogValueError ==
    /\ pc = "parse_logs"
    /\ p <= Len(logs)
    /\ logs[p].readable
    /\ LET st == ParseText([entries |-> entries, seen |-> seen, raised |-> FALSE],
                           logs[p].text, Policy)
       IN  /\ st.raised
           /\ entries' = st.entries
           /\ seen' = st.seen
    /\ reads' = reads + 1
    /\ pc' = "traceback"
    /\ exit_status' = 1
    /\ UNCHANGED <<args, globals, p, items, aggregates, outputs>>

\* parse_logs: read_text raises on the next log: except Exception: continue
SkipLog ==
    /\ pc = "parse_logs"
    /\ p <= Len(logs)
    /\ ~logs[p].readable
    /\ p' = p + 1
    /\ reads' = reads + 1
    /\ UNCHANGED <<args, globals, pc, entries, seen, items, aggregates, outputs, exit_status>>

\* parse_logs returns: items = parse_logs(a.logs)
ReturnEntries ==
    /\ pc = "parse_logs"
    /\ p > Len(logs)
    /\ items' = entries
    /\ pc' = "drop_notes"
    /\ UNCHANGED <<args, globals, parse_state, aggregates, outputs, exit_status>>

\* items = [it for it in items if it['sev'] != 'note']
FilterNotes ==
    /\ pc = "drop_notes"
    /\ items' = DropNotes(items)
    /\ pc' = "suppress"
    /\ UNCHANGED <<args, globals, parse_state, aggregates, outputs, exit_status>>

\* items = [it for it in items if not _suppressed(it)]
FilterSuppressed ==
    /\ pc = "suppress"
    /\ items' = DropSuppressed(items, Policy)
    /\ pc' = "sort"
    /\ UNCHANGED <<args, globals, parse_state, aggregates, outputs, exit_status>>

\* items.sort(key=...)
SortItems ==
    /\ pc = "sort"
    /\ items' = Sorted(items)
    /\ pc' = "aggregate"
    /\ UNCHANGED <<args, globals, parse_state, aggregates, outputs, exit_status>>

\* the loop that fills by_check, files and sev_ct
Aggregate ==
    /\ pc = "aggregate"
    /\ by_check' = ByCheck(items)
    /\ files' = Files(items)
    /\ sev_ct' = SevCt(items)
    /\ pc' = "write_html"
    /\ UNCHANGED <<args, globals, parse_state, items, outputs, exit_status>>

\* outp.write_text(html_out)
WriteHtml ==
    /\ pc = "write_html"
    /\ out_file' = <<HtmlOut(items, by_check, files, sev_ct)>>
    /\ pc' = IF counts THEN "write_counts" ELSE "fail_on"
    /\ UNCHANGED <<args, globals, parse_state, items, aggregates, counts_file, exit_status>>

\* mkdir or write_text raises: the exception ends the process with status 1
WriteHtmlError ==
    /\ pc = "write_html"
    /\ pc' = "write_error"
    /\ exit_status' = 1
    /\ UNCHANGED <<args, globals, parse_state, items, aggregates, outputs>>

\* json.dump of the counts to a.counts
WriteCounts ==
    /\ pc = "write_counts"
    /\ counts_file' = <<CountsOut(items, sev_ct)>>
    /\ pc' = "fail_on"
    /\ UNCHANGED <<args, globals, parse_state, items, aggregates, out_file, exit_status>>

\* open(a.counts, 'w') raises: the exception ends the process with status 1
WriteCountsError ==
    /\ pc = "write_counts"
    /\ pc' = "write_error"
    /\ exit_status' = 1
    /\ UNCHANGED <<args, globals, parse_state, items, aggregates, outputs>>

\* sys.exit(1) under --fail-on
SysExit ==
    /\ pc = "fail_on"
    /\ ShouldFail(fail_on, sev_ct)
    /\ pc' = "sys_exit"
    /\ exit_status' = 1
    /\ UNCHANGED <<args, globals, parse_state, items, aggregates, outputs>>

\* main returns: status 0
Return ==
    /\ pc = "fail_on"
    /\ ~ShouldFail(fail_on, sev_ct)
    /\ pc' = "end"
    /\ exit_status' = 0
    /\ UNCHANGED <<args, globals, parse_state, items, aggregates, outputs>>

Next ==
    \/ UsageError
    \/ ParseArgs
    \/ ReadLog
    \/ ReadLogValueError
    \/ SkipLog
    \/ ReturnEntries
    \/ FilterNotes
    \/ FilterSuppressed
    \/ SortItems
    \/ Aggregate
    \/ WriteHtml
    \/ WriteHtmlError
    \/ WriteCounts
    \/ WriteCountsError
    \/ SysExit
    \/ Return

---------------------------------------------------------------------------
(* Inputs. *)

\* the sequences of at most n lines drawn from pool
Texts(pool, n) == UNION {[1..k -> pool] : k \in 0..n}

\* the lines of s from position a + 1 to position b
Slice(s, a, b) == SubSeq(s, a + 1, b)

RECURSIVE SumTo(_, _)
SumTo(c, i) == IF i = 0 THEN 0 ELSE c[i] + SumTo(c, i - 1)

\* The log files of a run: 1 .. MaxFiles files (--logs is nargs='+'), each one
\* readable with its lines or unreadable, MaxLines lines at most in all.
InitLogs(pool) ==
    \E f \in 1..MaxFiles : \E rd \in [1..f -> BOOLEAN] :
    \E s \in Texts(pool, MaxLines) : \E c \in [1..f -> 0..Len(s)] :
        /\ SumTo(c, f) = Len(s)
        /\ \A i \in 1..f : ~rd[i] => c[i] = 0
        /\ logs = [i \in 1..f |->
                     [ readable |-> rd[i],
                       text     |-> IF rd[i] THEN Slice(s, SumTo(c, i - 1), SumTo(c, i))
                                    ELSE <<>> ]]

\* n times the digit c
Digits(c, n) == [i \in 1..n |-> c]

\* log lines with a number of more than INT_MAX_STR_DIGITS digits: the column
\* of a note, with leading zeros; the line of a warning in a header that the
\* header-only excluded checks pass over; the line of an error in the
\* directory v; and a warning whose line number has just as many digits as
\* int() converts
LongLines ==
    { <<"a",".","c",":","1",":">> \o Digits("0", INT_MAX_STR_DIGITS) \o <<"1",":"," ","n","o","t","e",":"," ","m"," ","[","k","]">>,
      <<"a",".","h",":">> \o Digits("9", INT_MAX_STR_DIGITS + 1) \o <<":","1",":"," ","w","a","r","n","i","n","g",":"," ","m"," ","[","c","e","r","t","-","o","o","p","5","4","-","c","p","p","]">>,
      <<"v","/","a",".","c",":">> \o Digits("9", INT_MAX_STR_DIGITS + 1) \o <<":","1",":"," ","e","r","r","o","r",":"," ","m">>,
      <<"a",".","c",":">> \o Digits("9", INT_MAX_STR_DIGITS) \o <<":","1",":"," ","w","a","r","n","i","n","g",":"," ","m"," ","[","c","2","]">> }

\* The log files of a run of which one line is a long one: alone, after or
\* before a line of pool, in a second log, or after a log that cannot be read.
InitLongLogs(pool) ==
    \E l \in LongLines : \E x \in pool :
    \E lg \in { << [readable |-> TRUE, text |-> <<l>>] >>,
                << [readable |-> TRUE, text |-> <<x, l>>] >>,
                << [readable |-> TRUE, text |-> <<l, x>>] >>,
                << [readable |-> TRUE, text |-> <<x>>], [readable |-> TRUE, text |-> <<l>>] >>,
                << [readable |-> FALSE, text |-> <<>>], [readable |-> TRUE, text |-> <<x, l>>] >> } :
        /\ Len(lg) <= MaxFiles
        /\ SumTo([i \in 1..Len(lg) |-> Len(lg[i].text)], Len(lg)) <= MaxLines
        /\ logs = lg

\* The module globals after import, from the environment variables env.
InitGlobals(env) ==
    /\ EXCLUDED_PATH_PREFIXES = load_excluded_prefixes(env.EXCLUDE_DIRS)
    /\ EXCLUDED_FILES = load_excluded_files(env.EXCLUDE_FILES)
    /\ SUPPRESS_CHECKS = SUPPRESS_CHECKS_BUILTIN \cup CommaList(env.CT_SUPPRESS_CHECKS)
    /\ SUPPRESS_MSG_SUBSTR = SUPPRESS_MSG_SUBSTR_BUILTIN \cup CommaList(env.CT_SUPPRESS_MSG_SUBSTR)

\* The state when main() is entered.
InitRun ==
    /\ pc = "parse_args"
    /\ p = 0
    /\ reads = 0
    /\ entries = <<>>
    /\ seen = {}
    /\ items = <<>>
    /\ by_check = <<>>
    /\ files = {}
    /\ sev_ct = [s \in {"error", "warning", "note"} |-> 0]
    /\ out_file = <<>>
    /\ counts_file = <<>>
    /\ exit_status = -1

\* no variable of the environment is set
EnvUnset ==
    [ EXCLUDE_DIRS |-> <<>>, EXCLUDE_FILES |-> <<>>,
      CT_SUPPRESS_CHECKS |-> <<>>, CT_SUPPRESS_MSG_SUBSTR |-> <<>> ]

\* the directory v and the file gen.c are excluded
EnvPaths ==
    [ EXCLUDE_DIRS |-> <<"v","\n">>, EXCLUDE_FILES |-> <<"g","e","n",".","c","\n">>,
      CT_SUPPRESS_CHECKS |-> <<>>, CT_SUPPRESS_MSG_SUBSTR |-> <<>> ]

\* two more checks, one to a line, and one more message substring are
\* suppressed
EnvChecks ==
    [ EXCLUDE_DIRS |-> <<>>, EXCLUDE_FILES |-> <<>>,
      CT_SUPPRESS_CHECKS |-> <<"x","-","y",",","\n"," ","c","1","\n">>, CT_SUPPRESS_MSG_SUBSTR |-> <<"n","o","i","s","e">> ]

\* The state main() is entered in: log lines drawn from pool, the environment
\* one of envs, --fail-on and --counts one of the pairs of opts.
InitWith(pool, envs, opts) ==
    /\ (InitLogs(pool) \/ InitLongLogs(pool))
    /\ \E o \in opts : fail_on = o[1] /\ counts = o[2]
    /\ \E env \in envs : InitGlobals(env)
    /\ InitRun

\* every --fail-on choice and one value argparse rejects, with and without --counts
AllOpts == {"none", "errors", "warnings", "all"} \X BOOLEAN

\* one run that fails on warnings and writes counts, one that argparse rejects
FewOpts == {<<"warnings", TRUE>>, <<"all", FALSE>>}

\* lines of a log: an error without a check, a warning, a note, and an error
\* that a built-in check and a built-in message substring suppress
PoolRun ==
    { <<"a",".","c",":","1",":","1",":"," ","e","r","r","o","r",":"," ","b","o","o","m">>,
      <<"a",".","c",":","2",":","1",":"," ","w","a","r","n","i","n","g",":"," ","m"," ","[","k","]">>,
      <<"a",".","c",":","3",":","1",":"," ","n","o","t","e",":"," ","m"," ","[","k","]">>,
      <<"b",".","h",":","4",":","1",":"," ","e","r","r","o","r",":"," ","'","x",".","h","'"," ","f","i","l","e"," ","n","o","t"," ","f","o","u","n","d"," ","[","c","l","a","n","g","-","d","i","a","g","n","o","s","t","i","c","-","e","r","r","o","r","]">> }

Init == InitWith(PoolRun, {EnvUnset}, AllOpts)

Spec == Init /\ [][Next]_vars

\* lines of a log: a note, a warning and an error at one place of a.c with one
\* check and message (the warning spelt with ./ and leading zeros), the same
\* error in the header a.h, and a warning in the directory v
PoolParse ==
    { <<"a",".","c",":","9",":","1",":"," ","n","o","t","e",":"," ","m"," ","[","c","e","r","t","-","o","o","p","5","4","-","c","p","p","]">>,
      <<".","/","a",".","c",":","0","9",":","0","1",":"," ","w","a","r","n","i","n","g",":"," ","m"," ","[","c","e","r","t","-","o","o","p","5","4","-","c","p","p","]">>,
      <<"a",".","c",":","9",":","1",":"," ","e","r","r","o","r",":"," ","m"," ","[","c","e","r","t","-","o","o","p","5","4","-","c","p","p","]">>,
      <<"a",".","h",":","9",":","1",":"," ","e","r","r","o","r",":"," ","m"," ","[","c","e","r","t","-","o","o","p","5","4","-","c","p","p","]">>,
      <<"v","/","a",".","c",":","9",":","1",":"," ","w","a","r","n","i","n","g",":"," ","m"," ","[","x","-","y","]">> }

InitParse == InitWith(PoolParse, {EnvUnset, EnvPaths, EnvChecks}, FewOpts)

SpecParse == InitParse /\ [][Next]_vars

\* lines of a log that differ in severity, path, line, column and check, and
\* a line that is no diagnostic
PoolSort ==
    { <<"a",".","c",":","9",":","2",":"," ","w","a","r","n","i","n","g",":"," ","m"," ","[","y","]">>,
      <<"a",".","c",":","1","0",":","1",":"," ","w","a","r","n","i","n","g",":"," ","m"," ","[","x","]">>,
      <<"a",".","c",":","9",":","2",":"," ","w","a","r","n","i","n","g",":"," ","n"," ","[","x","]">>,
      <<"B",".","c",":","9",":","1",":"," ","e","r","r","o","r",":"," ","m"," ","[","x","]">>,
      <<"a",".","c",":","9",":","1","0",":"," ","w","a","r","n","i","n","g",":"," ","m"," ","[","x","]">>,
      <<"2"," ","w","a","r","n","i","n","g","s"," ","g","e","n","e","r","a","t","e","d",".">> }

InitSort == InitWith(PoolSort, {EnvUnset}, FewOpts)

SpecSort == InitSort /\ [][Next]_vars

\* lines of a log that the exclusion sets tell apart: a note and a warning at
\* one place of the header a.h with the checks c1 and c2, a note there with
\* c2, a warning in the directory v, and an error without a check
PoolMono ==
    { <<"a",".","h",":","1",":","1",":"," ","n","o","t","e",":"," ","m"," ","[","c","1","]">>,
      <<"a",".","h",":","1",":","1",":"," ","w","a","r","n","i","n","g",":"," ","m"," ","[","c","2","]">>,
      <<"a",".","h",":","1",":","1",":"," ","n","o","t","e",":"," ","m"," ","[","c","2","]">>,
      <<"v","/","a",".","c",":","1",":","1",":"," ","w","a","r","n","i","n","g",":"," ","k"," ","[","c","1","]">>,
      <<"a",".","c",":","2",":","1",":"," ","e","r","r","o","r",":"," ","b","o","o","m">> }

InitMono == InitWith(PoolMono, {EnvUnset, EnvChecks}, FewOpts)

SpecMono == InitMono /\ [][Next]_vars

---------------------------------------------------------------------------
(* What the claims speak of. *)

\* the positions of main() at which items is the final list
FinalPcs == {"aggregate", "write_html", "write_counts", "fail_on",
             "write_error", "sys_exit", "end"}

\* the positions of main() after the notes were dropped
NotesDroppedPcs == {"suppress", "sort"} \cup FinalPcs

\* the identity of a record
TupleOf(r) == <<r.file, r.line, r.col, r.check, r.msg>>

\* the records of the lines of one log that match the grammar, in file order
RECURSIVE RecordsOfText(_)
RecordsOfText(text) ==
    IF text = <<>> THEN <<>>
    ELSE LET m == ROW_RE(Strip(Head(text)))
         IN  (IF m = <<>> THEN <<>> ELSE <<Entry(normalize_path(m[1].file), m[1])>>)
             \o RecordsOfText(Tail(text))

\* the records of all the logs that can be read, in input order
RECURSIVE RecordsOf(_)
RecordsOf(paths) ==
    IF paths = <<>> THEN <<>>
    ELSE (IF Head(paths).readable THEN RecordsOfText(Head(paths).text) ELSE <<>>)
         \o RecordsOf(Tail(paths))

\* a global rule matches the record: excluded path or prefix, excluded check,
\* excluded message substring
GlobalRule(r, pol) ==
    \/ r.file \in pol.files
    \/ \E pre \in pol.prefixes : StartsWith(r.file, pre)
    \/ r.check \in pol.checks
    \/ \E sub \in pol.msgs : sub # <<>> /\ Contains(r.msg, sub)

\* a suppression rule matches the record: a global rule or the header-only one
AnyRule(r, pol) ==
    \/ GlobalRule(r, pol)
    \/ (is_header(r.file) /\ r.check \in pol.hdr)

\* the record is an actionable finding: not a note, and no rule matches it
Actionable(r, pol) == r.sev # "note" /\ ~AnyRule(r, pol)

\* C1: for every identity tuple, the first record in input order that is not
\* a note and matches no suppression rule is in the final list, with its
\* severity: an earlier note with the same tuple does not take its place.
C1_FirstActionableKept ==
    pc \in FinalPcs =>
        LET R == RecordsOf(logs) IN
        \A i \in 1..Len(R) :
            ( /\ Actionable(R[i], Policy)
              /\ \A j \in 1..(i - 1) :
                    ~(TupleOf(R[j]) = TupleOf(R[i]) /\ Actionable(R[j], Policy)) )
            => \E k \in 1..Len(items) : items[k] = R[i]

\* C2: the list of records never holds two records with the same
\* (path, line, column, check, message), in parse_logs and in main.
C2_NoDuplicateTuples ==
    /\ \A i, j \in 1..Len(entries) :
          i # j => TupleOf(entries[i]) # TupleOf(entries[j])
    /\ \A i, j \in 1..Len(items) :
          i # j => TupleOf(items[i]) # TupleOf(items[j])

\* C2 witness: the run has ended, one finding stood twice in the first log
\* and once more in the second, and it is in the final list.
C2_Witness ==
    /\ pc = "sys_exit"
    /\ Len(logs) = 2
    /\ LET A == RecordsOfText(logs[1].text)
           B == RecordsOfText(logs[2].text)
       IN  /\ Len(A) = 2 /\ Len(B) = 1
           /\ TupleOf(A[1]) = TupleOf(A[2])
           /\ TupleOf(A[1]) = TupleOf(B[1])
           /\ \E k \in 1..Len(items) : TupleOf(items[k]) = TupleOf(A[1])

\* C3: once the notes were dropped, and in the final list, no record has the
\* severity note.
C3_NoNotesKept ==
    pc \in NotesDroppedPcs => \A i \in 1..Len(items) : items[i].sev # "note"

\* C3 witness: the run has ended, parse_logs had returned a note that no rule
\* matches, and the final list is not empty.
C3_Witness ==
    /\ pc = "sys_exit"
    /\ \E i \in 1..Len(entries) :
          entries[i].sev = "note" /\ ~AnyRule(entries[i], Policy)
    /\ items # <<>>

\* C4: a record on a header path whose check is in the header-only excluded
\* checks is dropped whatever its severity; a record on a non-header path with
\* such a check, that is no note and that no global rule matches, is kept.
C4_HeaderScope ==
    pc \in FinalPcs =>
        LET R == RecordsOf(logs) IN
        \A i \in 1..Len(R) :
            /\ (is_header(R[i].file) /\ R[i].check \in SUPPRESS_CHECKS_IN_HEADERS)
               => \A k \in 1..Len(items) : TupleOf(items[k]) # TupleOf(R[i])
            /\ ( /\ ~is_header(R[i].file)
                 /\ R[i].check \in SUPPRESS_CHECKS_IN_HEADERS
                 /\ R[i].sev # "note"
                 /\ ~GlobalRule(R[i], Policy) )
               => \E k \in 1..Len(items) : TupleOf(items[k]) = TupleOf(R[i])

\* one entry added to one exclusion set: <<set, entry>>
Additions ==
    ({"files"} \X {<<"a",".","h">>})
    \cup ({"prefixes"} \X {<<"v","/">>})
    \cup ({"checks"} \X {<<"c","1">>, <<"c","2">>})
    \cup ({"msgs"} \X {<<"m">>, <<"o","o">>})
    \cup ({"hdr"} \X {<<"c","1">>, <<"c","2">>})

\* the suppression sets with the addition
Added(pol, a) == [pol EXCEPT ![a[1]] = @ \cup {a[2]}]

\* the record matches the added entry
MatchesEntry(r, a) ==
    CASE a[1] = "files"    -> r.file = a[2]
      [] a[1] = "prefixes" -> StartsWith(r.file, a[2])
      [] a[1] = "checks"   -> r.check = a[2]
      [] a[1] = "msgs"     -> a[2] # <<>> /\ Contains(r.msg, a[2])
      [] a[1] = "hdr"      -> is_header(r.file) /\ r.check = a[2]

\* C5: for the input of a run that ends in main and every entry added to an
\* exclusion set, parse_logs returns under the larger set as well, the kept
\* list under the larger set is no longer than the kept list of the run, and
\* it holds every kept record of the run that does not match the added entry.
C5_Monotone ==
    pc \in {"sys_exit", "end"} =>
        \A a \in Additions :
            LET r     == parse_logs(logs, Added(Policy, a))
                after == DropSuppressed(DropNotes(r.entries), Added(Policy, a))
            IN
            /\ ~r.raised
            /\ Len(after) <= Len(items)
            /\ \A i \in 1..Len(items) :
                  ~MatchesEntry(items[i], a) => \E k \in 1..Len(after) : after[k] = items[i]

\* C5 witness: the run has ended with three kept records, and adding the
\* check c2 to the header-only excluded checks or the prefix v/ to the
\* excluded prefixes removes one of them and keeps the others.
C5_Witness ==
    /\ pc = "sys_exit"
    /\ Len(items) = 3
    /\ \E a \in {<<"hdr", <<"c","2">>>>, <<"prefixes", <<"v","/">>>>} :
          /\ Len(Kept(logs, Added(Policy, a))) = 2
          /\ \E i \in 1..3 : MatchesEntry(items[i], a)

\* severity rank: error < warning < note
Rank(sev) == CASE sev = "error" -> 0 [] sev = "warning" -> 1 [] sev = "note" -> 2

\* a <= b lexically: a is a prefix of b, or a has the smaller character at the
\* first position where they differ
LexLE(a, b) ==
    \/ (Len(a) <= Len(b) /\ SubSeq(b, 1, Len(a)) = a)
    \/ \E i \in 1..Len(a) :
          /\ i <= Len(b)
          /\ SubSeq(a, 1, i - 1) = SubSeq(b, 1, i - 1)
          /\ Ord[a[i]] < Ord[b[i]]

\* a < b for the decimal digits of two numbers without leading zeros
NumLT(a, b) == Len(a) < Len(b) \/ (Len(a) = Len(b) /\ a # b /\ LexLE(a, b))

\* x's (severity rank, path, line, column, check) is less than or equal to y's
DisplayLE(x, y) ==
    \/ Rank(x.sev) < Rank(y.sev)
    \/ /\ Rank(x.sev) = Rank(y.sev)
       /\ \/ (x.file # y.file /\ LexLE(x.file, y.file))
          \/ /\ x.file = y.file
             /\ \/ NumLT(x.line, y.line)
                \/ /\ x.line = y.line
                   /\ \/ NumLT(x.col, y.col)
                      \/ (x.col = y.col /\ LexLE(x.check, y.check))

\* C6: in the final list every record's (severity rank, path, line, column,
\* check) is less than or equal to that of the record after it, line and
\* column compared as integers, path and check lexically.
C6_DisplayOrder ==
    pc \in FinalPcs =>
        \A i \in 1..(Len(items) - 1) : DisplayLE(items[i], items[i + 1])

\* C6 witness: the run has ended, three records are in the final list in
\* another order than parse_logs returned them, an error among them, and
\* line 9 stands before line 10.
C6_Witness ==
    /\ pc = "sys_exit"
    /\ Len(items) = 3
    /\ items # entries
    /\ items[1].sev = "error"
    /\ items[2].line = <<"9">> /\ items[3].line = <<"1","0">>

\* the number of records of the final list with a severity
NumWith(sev) == Cardinality({i \in 1..Len(items) : items[i].sev = sev})

\* the --fail-on policies
Recognized == {"none", "errors", "warnings"}

\* C7: a run that ends, but for a --fail-on that argparse rejects and a report
\* or counts file that cannot be written, ends with status 0 or 1: 0 under
\* none; non-zero under errors exactly if the final list holds an error;
\* non-zero under warnings exactly if it holds an error or a warning.  A run
\* whose records are all notes or suppressed ends with status 0.
C7_ExitPolicy ==
    pc \in {"sys_exit", "end", "traceback"} =>
        /\ exit_status \in {0, 1}
        /\ fail_on \in Recognized
        /\ fail_on = "none" => exit_status = 0
        /\ fail_on = "errors" => (exit_status # 0 <=> NumWith("error") > 0)
        /\ fail_on = "warnings" =>
              (exit_status # 0 <=> (NumWith("error") > 0 \/ NumWith("warning") > 0))
        /\ (\A i \in 1..Len(RecordsOf(logs)) : ~Actionable(RecordsOf(logs)[i], Policy))
              => exit_status = 0

\* the logs that can be read, in order
Readable(paths) == SelectSeq(paths, LAMBDA f : f.readable)

\* C8: with a log that cannot be read in the list, parse_logs terminates
\* normally: it does not end with an exception.  While it runs, entries is
\* what parse_logs returns for the logs passed so far with the unreadable ones
\* removed, and what it returns to main is what it returns for the list of
\* the readable logs.
C8_UnreadableSkipped ==
    /\ (\E i \in 1..Len(logs) : ~logs[i].readable) => pc # "traceback"
    /\ pc = "parse_logs" =>
          entries = parse_logs(Readable(SubSeq(logs, 1, p - 1)), Policy).entries
    /\ pc = "drop_notes" =>
          /\ items = entries
          /\ items = parse_logs(Readable(logs), Policy).entries

\* the sum of the sizes of the groups of bc with a key in ks
RECURSIVE GroupSizes(_, _)
GroupSizes(bc, ks) ==
    IF ks = {} THEN 0
    ELSE LET k == CHOOSE c \in ks : TRUE
         IN  Len(bc[k]) + GroupSizes(bc, ks \ {k})

\* C9: once the records are counted, errors and warnings add up to the length
\* of the final list and so do the sizes of the per-check groups; the counts
\* file, once written, says total = errors + warnings = that length, and all
\* three are 0 if the list is empty.
C9_CountsConsistent ==
    /\ pc \in FinalPcs \ {"aggregate"} =>
          /\ sev_ct["error"] + sev_ct["warning"] = Len(items)
          /\ GroupSizes(by_check, DOMAIN by_check) = Len(items)
    /\ counts_file # <<>> =>
          /\ counts_file[1].total = counts_file[1].errors + counts_file[1].warnings
          /\ counts_file[1].total = Len(items)
          /\ counts_file[1].errors = NumWith("error")
          /\ items = <<>> =>
                counts_file[1] = [errors |-> 0, warnings |-> 0, total |-> 0]

\* C9 witness: the counts file says one error and one warning, and the error
\* is in the group of the records without a check.
C9_Witness ==
    /\ counts_file = <<[errors |-> 1, warnings |-> 1, total |-> 2]>>
    /\ <<>> \in DOMAIN by_check
    /\ Len(by_check[<<>>]) = 1

\* C10: a run with a --fail-on that is a policy and outputs that can be
\* written has, when the process ends, written the report, and the counts
\* file if one was asked for; the counts file is never written before the
\* report; the process has a status exactly when it has ended; with a
\* --fail-on that is no policy, no log is read.
C10_OutputsBeforeExit ==
    /\ pc \in {"sys_exit", "end", "traceback"} =>
          (out_file # <<>> /\ (counts => counts_file # <<>>))
    /\ counts_file # <<>> => (out_file # <<>> /\ counts)
    /\ exit_status # -1 <=>
          pc \in {"usage_error", "write_error", "traceback", "sys_exit", "end"}
    /\ fail_on \notin Recognized =>
          (reads = 0 /\ pc \in {"parse_args", "usage_error"})

====
